---------------------------- MODULE Spec2Model ----------------------------
(***************************************************************************)
(* A model of PydAppHubFuse (src/pydapphubfuse.py): a read-only FUSE       *)
(* filesystem that presents one directory dapp@<name>.service.d per dApp   *)
(* of a JSON catalog, each holding a generated dapp.conf.                  *)
(*                                                                         *)
(* Python strings are modelled as sequences of one-character strings, so   *)
(* that the regular expression of classify, the text built by genconfig    *)
(* and the slices taken by read are computed character by character.       *)
(***************************************************************************)
EXTENDS Integers, Sequences, FiniteSets, TLC

(***************************************************************************)
(* Bounds of the model.                                                    *)
(***************************************************************************)
\* open is not taken once lastfd has reached MaxFd (handles 0..MaxFd).
MaxFd == 1

\* genconfig is not invoked more than MaxGen times for one catalog name.
MaxGen == 2

\* read offsets reach up to MaxOver characters past the end of a document.
MaxOver == 1

\* read lengths 0..MaxReadLen, plus one length larger than every document.
MaxReadLen == 1

\* access modes 0..MaxMode (F_OK = 0 and every combination of R, W, X).
MaxMode == 7

\* generated entity names have 1..MaxNameLen characters.
MaxNameLen == 2

\* The longest list of ports of a record given to genconfig on its own.
MaxPorts == 2

(***************************************************************************)
(* Python values and outcomes.                                             *)
(***************************************************************************)
\* The three kinds of value classify returns: None, True, or a str.
PyNone == [t |-> "None"]

PyTrue == [t |-> "True"]

PyStr(s) == [t |-> "str", v |-> s]

\* bool(obj): None is falsy, True is truthy, a str is truthy unless empty.
Truthy(o) == (o.t = "True") \/ (o.t = "str" /\ o.v # <<>>)

\* type(obj) is str
IsStr(o) == o.t = "str"

\* A call either returns a value or raises.
Ok(v) == [err |-> "", val |-> v]

Raise(e) == [err |-> e, val |-> <<>>]

\* The newline character.
NL == "\n"

Upper == {"A", "B", "C", "D", "E", "F", "G", "H", "I", "J", "K", "L", "M", "N", "O", "P", "Q", "R", "S", "T", "U", "V", "W", "X", "Y", "Z"}

Lower == {"a", "b", "c", "d", "e", "f", "g", "h", "i", "j", "k", "l", "m", "n", "o", "p", "q", "r", "s", "t", "u", "v", "w", "x", "y", "z"}

\* The character class [A-Za-z-_] of the pattern of classify: the ranges
\* A-Z and a-z, a literal hyphen and a literal underscore (no digits).
NameClass == Upper \cup Lower \cup {"-", "_"}

\* '.' of the pattern (no DOTALL flag): any character except a newline.
AnyChar(c) == c # NL

\* The concatenation of a sequence of strings.
RECURSIVE Concat(_)
Concat(ss) == IF ss = <<>> THEN <<>> ELSE Head(ss) \o Concat(Tail(ss))

\* sep.join(ss)
RECURSIVE Join(_, _)
Join(sep, ss) ==
    IF ss = <<>> THEN <<>>
    ELSE IF Len(ss) = 1 THEN ss[1]
    ELSE ss[1] \o sep \o Join(sep, Tail(ss))

Digit(d) == <<"0", "1", "2", "3", "4", "5", "6", "7", "8", "9">>[d + 1]

\* str(n) of a non-negative int, as '{port}'.format(...) renders it.
RECURSIVE IntStr(_)
IntStr(n) == IF n < 10 THEN <<Digit(n)>> ELSE IntStr(n \div 10) \o <<Digit(n % 10)>>

\* s.replace(old, new) for a one-character old and new.
Replace(s, old, new) == [i \in 1..Len(s) |-> IF s[i] = old THEN new ELSE s[i]]

\* a & b on non-negative ints.
RECURSIVE BitAnd(_, _)
BitAnd(a, b) ==
    IF a = 0 \/ b = 0 THEN 0
    ELSE (a % 2) * (b % 2) + 2 * BitAnd(a \div 2, b \div 2)

Min(a, b) == IF a <= b THEN a ELSE b

\* s[a:b] of Python: negative indices count from the end, both are
\* clamped to 0..len(s), and the slice is empty when a >= b.
PySlice(s, a, b) ==
    LET n == Len(s)
        norm(i) == IF i < 0 THEN (IF i + n < 0 THEN 0 ELSE i + n) ELSE Min(i, n)
        lo == norm(a)
        hi == norm(b)
    IN  IF lo >= hi THEN <<>> ELSE SubSeq(s, lo + 1, hi)

\* A character outside ASCII; s.encode('ascii') raises on it.
NonAscii == {"U+00E9"}

\* s.encode('ascii'): the same characters as bytes, or UnicodeEncodeError.
EncodeAscii(s) ==
    IF \E i \in 1..Len(s) : s[i] \in NonAscii
    THEN Raise("UnicodeEncodeError")
    ELSE Ok(s)

(***************************************************************************)
(* The catalog: the parsed JSON, and self.dapps built from it.             *)
(***************************************************************************)
\* json.load(fp): a list of dApp records.  "w2" has a digit in its name,
\* "bad" lacks the image field.
jsonobj ==
    << [name |-> <<"w", "e", "b">>,
        description |-> <<"W", "e", "b">>,
        image |-> <<"o", "/", "w", ":", "1">>,
        ports |-> << [port |-> 80, protocol |-> <<"t", "c", "p">>, type |-> "public"],
                     [port |-> 443, protocol |-> <<"t", "c", "p">>, type |-> "private"] >>],
       [name |-> <<"x", "-", "y", "_">>,
        description |-> <<"X">>,
        image |-> <<"x">>,
        ports |-> << [port |-> 53, protocol |-> <<"u", "d", "p">>, type |-> "public"] >>],
       [name |-> <<"w", "2">>,
        description |-> <<"W">>,
        image |-> <<"w">>,
        ports |-> << >>],
       [name |-> <<"b", "a", "d">>,
        description |-> <<"B">>,
        ports |-> << >>] >>

\* The keys of self.dapps.
DappKeys == {jsonobj[i].name : i \in DOMAIN jsonobj}

\* self.dapps = { v['name']:v for v in jsonobj }: the last record of a
\* name wins.
dapps ==
    [n \in DappKeys |->
        jsonobj[CHOOSE i \in DOMAIN jsonobj :
                    /\ jsonobj[i].name = n
                    /\ \A j \in DOMAIN jsonobj : j > i => jsonobj[j].name # n]]

\* Iteration order of self.dapps: keys in the order of their first insertion.
DappOrder ==
    LET first(i) == \A j \in 1..(i - 1) : jsonobj[j].name # jsonobj[i].name
        idx == SelectSeq([i \in 1..Len(jsonobj) |-> i], first)
    IN  [k \in 1..Len(idx) |-> jsonobj[idx[k]].name]

(***************************************************************************)
(* classify and getobj.                                                    *)
(***************************************************************************)
DappPrefix == << "/", "d", "a", "p", "p", "@" >>

ServiceWord == << "s", "e", "r", "v", "i", "c", "e" >>

DappConf == << "/", "d", "a", "p", "p", ".", "c", "o", "n", "f" >>

\* '$' at position i of p (no MULTILINE flag): the end of the string, or
\* just before a newline that ends the string.
AtEnd(p, i) == i = Len(p) + 1 \/ (i = Len(p) /\ p[i] = NL)

\* The end of the longest run of non-newline characters that starts at i:
\* where the greedy '.*' stops.
RECURSIVE DotStar(_, _)
DotStar(p, i) == IF i <= Len(p) /\ AnyChar(p[i]) THEN DotStar(p, i + 1) ELSE i

\* '(/.*)?$' at position j of p: the optional group takes '/' and the rest
\* of the line when there is a '/', and '$' must follow.
\* The result is <<matched, group 2 took part, end of group 2>>.
TrailMatch(p, j) ==
    IF j <= Len(p) /\ p[j] = "/"
    THEN LET e == DotStar(p, j + 1)
         IN  [ok |-> AtEnd(p, e), has2 |-> TRUE, stop |-> e]
    ELSE [ok |-> AtEnd(p, j), has2 |-> FALSE, stop |-> j]

\* '.service.d(/.*)?$' at position i of p; each '.' is any character.
SuffixMatch(p, i) ==
    /\ i + 9 <= Len(p)
    /\ p[i + 9] = "d"
    /\ AnyChar(p[i])
    /\ AnyChar(p[i + 8])
    /\ \A j \in 1..7 : p[i + j] = ServiceWord[j]
    /\ TrailMatch(p, i + 10).ok

\* The end of the longest run of characters of [A-Za-z-_] that starts at i:
\* where the greedy '+' stops first.
RECURSIVE NameRun(_, _)
NameRun(p, i) == IF i <= Len(p) /\ p[i] \in NameClass THEN NameRun(p, i + 1) ELSE i

\* The longest k in 1..n for which '.service.d(/.*)?$' matches after k
\* name characters (0 if none): '+' gives characters back one at a time.
RECURSIVE Backtrack(_, _, _)
Backtrack(p, pre, k) ==
    IF k = 0 THEN 0
    ELSE IF SuffixMatch(p, pre + k + 1) THEN k
    ELSE Backtrack(p, pre, k - 1)

\* re.match("^/dapp@([A-Za-z-_]+).service.d(/.*)?$", path): group 1 is the
\* longest run of name characters after which the rest of the pattern
\* matches.  g2 is PyNone when group 2 did not take part in the match.
ReMatch(p) ==
    LET pre == Len(DappPrefix)
        k   == IF Len(p) > pre /\ \A i \in 1..pre : p[i] = DappPrefix[i]
               THEN Backtrack(p, pre, NameRun(p, pre + 1) - pre - 1)
               ELSE 0
    IN  IF k = 0 THEN [ok |-> FALSE, g1 |-> <<>>, g2 |-> PyNone]
        ELSE LET tr == TrailMatch(p, pre + k + 11)
             IN  [ok |-> TRUE,
                  g1 |-> SubSeq(p, pre + 1, pre + k),
                  g2 |-> IF tr.has2
                         THEN PyStr(SubSeq(p, pre + k + 11, tr.stop - 1))
                         ELSE PyNone]

\* classify(self, path): None = invalid path, True = valid directory,
\* dapp name = valid dapp.conf.
classify(path) ==
    IF path = <<"/">> THEN PyTrue
    ELSE LET m == ReMatch(path)
         IN  IF ~m.ok THEN PyNone
             ELSE IF ~Truthy(m.g2) THEN PyTrue
             ELSE IF m.g1 \notin DOMAIN dapps THEN PyNone
             ELSE IF m.g2.v = DappConf THEN PyStr(m.g1)
             ELSE PyNone

\* getobj(self, path): classify, raising ENOENT on a falsy result.
getobj(path) ==
    LET obj == classify(path)
    IN  IF ~Truthy(obj) THEN Raise("ENOENT") ELSE Ok(obj)

(***************************************************************************)
(* genconfig: the text of dapp.conf.                                       *)
(***************************************************************************)
ConfHead ==
    << "#", "\n", "#", " ", "A", "u", "t", "o", "m", "a", "t", "i", "c", "a", "l", "l", "y",
      " ", "g", "e", "n", "e", "r", "a", "t", "e", "d", " ", "b", "y", " ", "F", "U", "S", "E",
      " ", "f", "r", "o", "m", " ", "d", "A", "p", "p", " ", "H", "u", "b", " ", "J", "S", "O",
      "N", "\n", "#", " ", "D", "o", " ", "n", "o", "t", " ", "[", "a", "t", "t", "e", "m", "p",
      "t", "]", " ", "t", "o", " ", "e", "d", "i", "t", "\n", "#", "\n", "[", "U", "n", "i",
      "t", "]", "\n", "D", "e", "s", "c", "r", "i", "p", "t", "i", "o", "n", "=" >>

WantsHead ==
    << "W", "a", "n", "t", "s", "=", "f", "o", "r", "w", "a", "r", "d", "-", "p", "o", "r", "t",
      "@" >>

WantsTail ==
    << ".", "s", "e", "r", "v", "i", "c", "e" >>

ServiceHead ==
    << "[", "S", "e", "r", "v", "i", "c", "e", "]", "\n" >>

PortsHead ==
    << "E", "n", "v", "i", "r", "o", "n", "m", "e", "n", "t", "=", "D", "A", "P", "P", "_", "D",
      "O", "C", "K", "E", "R", "_", "P", "O", "R", "T", "S", "=", "\"" >>

OverwriteNote ==
    << "\n", "#", " ", "M", "a", "k", "i", "n", "g", " ", "s", "u", "r", "e", " ", "w", "e",
      " ", "o", "v", "e", "r", "w", "r", "i", "t", "e", " ", "p", "r", "e", "v", "i", "o", "u",
      "s", " ", "v", "a", "l", "u", "e", "s", "\n" >>

ImageHead ==
    << "E", "n", "v", "i", "r", "o", "n", "m", "e", "n", "t", "=", "D", "A", "P", "P", "_", "D",
      "O", "C", "K", "E", "R", "_", "I", "M", "A", "G", "E", "=" >>

ImageFileHead ==
    << "E", "n", "v", "i", "r", "o", "n", "m", "e", "n", "t", "=", "D", "A", "P", "P", "_", "D",
      "O", "C", "K", "E", "R", "_", "I", "M", "A", "G", "E", "_", "F", "I", "L", "E", "=", "/",
      "v", "a", "r", "/", "l", "i", "b", "/", "d", "o", "c", "k", "e", "r", "/", "p", "r", "e",
      "i", "n", "s", "t", "a", "l", "l", "/" >>

ImageFileTail ==
    << ".", "t", "a", "r", "\n" >>

PortFields == {"port", "protocol", "type"}

\* 'Wants=forward-port@{port}-{protocol}.service'.format(**port)
WantsLine(port) ==
    WantsHead \o IntStr(port.port) \o <<"-">> \o port.protocol \o WantsTail

\* '-p{port}/{protocol}'.format(**port)
PublishToken(port) == <<"-", "p">> \o IntStr(port.port) \o <<"/">> \o port.protocol

IsPublic_any(port) == TRUE

\* if port['type']=='public'
IsPublic(port) == port.type = "public"

generate_partial(d) ==
    IF "description" \notin DOMAIN d THEN Raise("KeyError")
    ELSE Ok(ConfHead \o d.description \o <<NL>>)

\* The text genconfig builds from the record d of a dApp, or KeyError
\* when a field the text needs is missing.
generate(d) ==
    IF "description" \notin DOMAIN d THEN Raise("KeyError")
    ELSE IF "ports" \notin DOMAIN d THEN Raise("KeyError")
    ELSE IF \E i \in DOMAIN d.ports : ~(PortFields \subseteq DOMAIN d.ports[i])
         THEN Raise("KeyError")
    ELSE IF "image" \notin DOMAIN d THEN Raise("KeyError")
    ELSE LET public == SelectSeq(d.ports, IsPublic)
             wants  == [i \in 1..Len(public) |-> WantsLine(public[i])]
             tokens == [i \in 1..Len(d.ports) |-> PublishToken(d.ports[i])]
         IN  Ok(Concat(<<
                ConfHead, d.description, <<NL>>,
                Join(<<NL>>, wants),
                <<NL, NL>>,
                ServiceHead,
                PortsHead, Join(<<" ">>, tokens), <<"\"">>,
                OverwriteNote,
                ImageHead, d.image, <<NL>>,
                ImageFileHead,
                Replace(Replace(d.image, "/", "_"), ":", "_"),
                ImageFileTail,
                <<NL>> >>))

\* What genconfig gives for each key of self.dapps (the catalog never
\* changes, so neither does this).
Generated == [n \in DappKeys |-> generate(dapps[n])]

\* genconfig(self, dapp): d = self.dapps[dapp] raises KeyError when dapp
\* is no key of self.dapps (as when dapp is True).
genconfig(dapp) ==
    IF ~IsStr(dapp) \/ dapp.v \notin DOMAIN dapps THEN Raise("KeyError")
    ELSE Generated[dapp.v]

(***************************************************************************)
(* The state of a PydAppHubFuse object, and the last call made on it.      *)
(***************************************************************************)
VARIABLES
    cache,      \* self.cache: dapp name -> generated text
    filecache,  \* self.filecache: file descriptor -> text captured by open
    lastfd,     \* self.lastfd
    fdpath,     \* file descriptor in filecache -> the path open was called with
    gencalls,   \* dapp name -> number of genconfig calls made for it so far
    call,       \* the last call: its name and arguments
    obj,        \* the value getobj returned in the last call (None if it returned none)
    ret,        \* the outcome of the last call: a value or an exception
    desc,       \* the dApp record genconfig is building the text of, if any
    threads     \* the open calls that run as threads: thread -> its position

vars == <<cache, filecache, lastfd, fdpath, gencalls, call, obj, ret, desc, threads>>

\* No record is under generation.
NoDesc == <<>>

\* The threads that each make one open call.
Threads == {1, 2}

\* A thread that has not called open yet.
Idle == [pc |-> "idle", path |-> <<>>, obj |-> PyNone, fd |-> -1, doc |-> <<>>,
         ret |-> [err |-> "pending", val |-> <<>>], overlap |-> FALSE]

\* f with key k set to v (f[k] = v of a dict).
SetItem(f, k, v) == [x \in (DOMAIN f) \cup {k} |-> IF x = k THEN v ELSE f[x]]

\* f without key k (del f[k] of a dict that has k).
DelItem(f, k) == [x \in (DOMAIN f) \ {k} |-> f[x]]

NoPath == <<>>

Call(op, path, mode, fh, offset, length) ==
    [op |-> op, path |-> path, mode |-> mode, fh |-> fh,
     offset |-> offset, length |-> length]

\* getconfig without the look into the cache: genconfig is called every time.
getconfig_nocache(dapp) ==
    LET g == genconfig(dapp)
    IN  [res    |-> g,
         cache  |-> IF g.err = "" THEN SetItem(cache, dapp.v, g.val) ELSE cache,
         called |-> TRUE]

\* getconfig(self, dapp): the cached text, or the text genconfig returns,
\* stored in the cache; an exception of genconfig propagates and stores
\* nothing.  The result carries the cache as the call leaves it and whether
\* genconfig was called.
getconfig(dapp) ==
    IF IsStr(dapp) /\ dapp.v \in DOMAIN cache
    THEN [res |-> Ok(cache[dapp.v]), cache |-> cache, called |-> FALSE]
    ELSE LET g == genconfig(dapp)
         IN  [res    |-> g,
              cache  |-> IF g.err = "" THEN SetItem(cache, dapp.v, g.val) ELSE cache,
              called |-> TRUE]

\* gencalls after a getconfig(dapp) call with result r.
Counted(dapp, r) ==
    IF r.called /\ IsStr(dapp) /\ dapp.v \in DOMAIN gencalls
    THEN [gencalls EXCEPT ![dapp.v] = @ + 1]
    ELSE gencalls

\* The model stops calling genconfig for a name after MaxGen calls: a
\* getconfig(dapp) call with result r is not made when it would be one more.
CanGenerate(dapp, r) ==
    r.called /\ IsStr(dapp) /\ dapp.v \in DOMAIN gencalls
        => gencalls[dapp.v] < MaxGen

W_OK == 2

X_OK == 1

S_IFDIR == 16384

S_IFREG == 32768

\* 0o755
DirPerm == 493

\* 0o644
FilePerm == 420

Stat(st_mode, st_size) ==
    [st_atime |-> 0, st_ctime |-> 0, st_gid |-> 0, st_mode |-> st_mode,
     st_mtime |-> 0, st_nlink |-> 0, st_size |-> st_size, st_uid |-> 0]

\* 'dapp@%s.service.d' % dapp
DirentName(dapp) == <<"d", "a", "p", "p", "@">> \o dapp
                        \o <<".", "s", "e", "r", "v", "i", "c", "e", ".", "d">>

Init ==
    /\ cache = <<>>
    /\ filecache = <<>>
    /\ lastfd = -1
    /\ fdpath = <<>>
    /\ gencalls = [n \in DappKeys |-> 0]
    /\ call = Call("init", NoPath, 0, 0, 0, 0)
    /\ obj = PyNone
    /\ ret = Ok(PyNone)
    /\ desc = NoDesc
    /\ threads = [t \in Threads |-> Idle]

\* access without the check of the execute bit.
Denied_writeOnly(isdir, mode) == BitAnd(mode, W_OK) # 0

\* The test of access: write is denied everywhere, execute on what is no
\* directory.
Denied(isdir, mode) ==
    BitAnd(mode, W_OK) # 0 \/ (~isdir /\ BitAnd(mode, X_OK) # 0)

\* access(self, path, mode)
access(path, mode) ==
    \E o \in {getobj(path)} :
        /\ call' = Call("access", path, mode, 0, 0, 0)
        /\ UNCHANGED <<desc, threads>>
        /\ obj' = (IF o.err = "" THEN o.val ELSE PyNone)
        /\ ret' = IF o.err # "" THEN o
                  ELSE IF Denied(~IsStr(o.val), mode) THEN Raise("EACCES")
                  ELSE Ok(PyNone)
        /\ UNCHANGED <<cache, filecache, lastfd, fdpath, gencalls>>

\* st_size of a file that leaves out the newline that ends the text.
FileSize_lessOne(text) == Len(text) - 1

\* st_size of a file: len(self.getconfig(obj))
FileSize(text) == Len(text)

\* getattr(self, path, fh)
getattr(path) ==
    \E o \in {getobj(path)} :
        /\ call' = Call("getattr", path, 0, 0, 0, 0)
        /\ UNCHANGED <<desc, threads>>
        /\ obj' = (IF o.err = "" THEN o.val ELSE PyNone)
        /\ IF o.err # ""
           THEN /\ ret' = o
                /\ UNCHANGED <<cache, gencalls>>
           ELSE IF ~IsStr(o.val)
           THEN /\ ret' = Ok(Stat(S_IFDIR + DirPerm, 0))
                /\ UNCHANGED <<cache, gencalls>>
           ELSE LET r == getconfig(o.val)
                IN  /\ CanGenerate(o.val, r)
                    /\ cache' = r.cache
                    /\ gencalls' = Counted(o.val, r)
                    /\ ret' = IF r.res.err # "" THEN r.res
                              ELSE Ok(Stat(S_IFREG + FilePerm, FileSize(r.res.val)))
        /\ UNCHANGED <<filecache, lastfd, fdpath>>

\* readdir(self, path, fh): obj is True or a str, never a dict, so the
\* EBADF branch is not taken.
readdir(path) ==
    \E o \in {getobj(path)} :
        /\ call' = Call("readdir", path, 0, 0, 0, 0)
        /\ UNCHANGED <<desc, threads>>
        /\ obj' = (IF o.err = "" THEN o.val ELSE PyNone)
        /\ ret' = IF o.err # "" THEN o
                  ELSE IF o.val.t = "dict" THEN Raise("EBADF")
                  ELSE IF path = <<"/">>
                  THEN Ok(<< <<".">>, <<".", ".">> >>
                            \o [i \in 1..Len(DappOrder) |-> DirentName(DappOrder[i])])
                  ELSE Ok(<< <<".">>, <<".", ".">>,
                             <<"d", "a", "p", "p", ".", "c", "o", "n", "f">> >>)
        /\ UNCHANGED <<cache, filecache, lastfd, fdpath, gencalls>>

\* A counter that stays where it is once a descriptor has been given out.
nextfd_same(fd) == IF fd < 0 THEN fd + 1 ELSE fd

\* self.lastfd += 1
nextfd(fd) == fd + 1

\* open(self, path, flags): lastfd is incremented before getconfig is
\* called, so it stays incremented when getconfig raises.
open(path) ==
    \E o \in {getobj(path)} :
        /\ call' = Call("open", path, 0, 0, 0, 0)
        /\ UNCHANGED <<desc, threads>>
        /\ obj' = (IF o.err = "" THEN o.val ELSE PyNone)
        /\ IF o.err # ""
           THEN /\ ret' = o
                /\ UNCHANGED <<cache, filecache, lastfd, fdpath, gencalls>>
           ELSE LET r == getconfig(o.val)
                IN  /\ lastfd < MaxFd
                    /\ CanGenerate(o.val, r)
                    /\ lastfd' = nextfd(lastfd)
                    /\ cache' = r.cache
                    /\ gencalls' = Counted(o.val, r)
                    /\ IF r.res.err # ""
                       THEN /\ ret' = r.res
                            /\ UNCHANGED <<filecache, fdpath>>
                       ELSE /\ filecache' = SetItem(filecache, lastfd', r.res.val)
                            /\ fdpath' = SetItem(fdpath, lastfd', path)
                            /\ ret' = Ok(lastfd')

\* release(self, path, fh): del self.filecache[self.lastfd].  Neither path
\* nor fh is used: the entry deleted is that of the last descriptor opened.
release(fh) ==
    /\ call' = Call("release", NoPath, 0, fh, 0, 0)
    /\ UNCHANGED <<desc, threads>>
    /\ obj' = PyNone
    /\ IF lastfd \in DOMAIN filecache
       THEN /\ filecache' = DelItem(filecache, lastfd)
            /\ fdpath' = DelItem(fdpath, lastfd)
            /\ ret' = Ok(PyNone)
       ELSE /\ ret' = Raise("KeyError")
            /\ UNCHANGED <<filecache, fdpath>>
    /\ UNCHANGED <<cache, lastfd, gencalls>>

\* read with length taken for the end of the slice.
readbytes_lengthAsEnd(fh, offset, length) ==
    IF fh \notin DOMAIN filecache THEN Raise("KeyError")
    ELSE EncodeAscii(PySlice(filecache[fh], offset, length))

\* What read(self, path, length, offset, fh) returns or raises (path is
\* not used).
readbytes(fh, offset, length) ==
    IF fh \notin DOMAIN filecache THEN Raise("KeyError")
    ELSE LET doc == filecache[fh]
             end == offset + Min(Len(doc) - offset, length)
         IN  EncodeAscii(PySlice(doc, offset, end))

\* read(self, path, length, offset, fh)
read(fh, offset, length) ==
    /\ call' = Call("read", NoPath, 0, fh, offset, length)
    /\ UNCHANGED <<desc, threads>>
    /\ obj' = PyNone
    /\ ret' = readbytes(fh, offset, length)
    /\ UNCHANGED <<cache, filecache, lastfd, fdpath, gencalls>>

\* fsync(self, *args, **kwargs): pass
fsync ==
    /\ call' = Call("fsync", NoPath, 0, 0, 0, 0)
    /\ UNCHANGED <<desc, threads>>
    /\ obj' = PyNone
    /\ ret' = Ok(PyNone)
    /\ UNCHANGED <<cache, filecache, lastfd, fdpath, gencalls>>

(***************************************************************************)
(* The inputs of the calls.                                                *)
(***************************************************************************)
\* '/dapp@<name>.service.d'
DirPath(n) == DappPrefix \o n \o <<".">> \o ServiceWord \o <<".", "d">>

\* '/dapp@<name>.service.d/dapp.conf'
FilePath(n) == DirPath(n) \o DappConf

Root == <<"/">>

Web == <<"w", "e", "b">>

\* The paths of the filesystem calls: the root, a directory, the file of
\* every catalog entry, and a file that no directory has.
FsPaths ==
    {Root, DirPath(Web), DirPath(Web) \o <<"/", "x">>}
        \cup {FilePath(n) : n \in DappKeys}

Modes == 0..MaxMode

\* File descriptors: those open can return, and one it never returns.
Fds == 0..(MaxFd + 1)

\* A length larger than every document.
Huge ==
    LET lens == {Len(Generated[n].val) : n \in DappKeys}
    IN  (CHOOSE l \in lens : \A m \in lens : m <= l) + 1

\* Offsets around the end of the document of descriptor fh (the start
\* alone when fh is not open).
Offsets(fh) ==
    IF fh \in DOMAIN filecache
    THEN {0, 1} \cup {Len(filecache[fh]) + k : k \in (-1)..MaxOver}
    ELSE {0}

Lengths == (0..MaxReadLen) \cup {Huge}

\* Every operation, with few arguments for access and read.
Next ==
    \/ \E p \in FsPaths, m \in {0, W_OK} : access(p, m)
    \/ \E p \in FsPaths : getattr(p)
    \/ \E p \in FsPaths : readdir(p)
    \/ \E p \in FsPaths : open(p)
    \/ \E fh \in Fds : release(fh)
    \/ \E fh \in Fds, offset \in {0, 1}, length \in {1, Huge} : read(fh, offset, length)
    \/ fsync

Spec == Init /\ [][Next]_vars

\* read with offsets and lengths around the end of the document, on the
\* descriptors that open and release leave.
NextRead ==
    \/ \E p \in FsPaths : open(p)
    \/ \E fh \in Fds : release(fh)
    \/ \E fh \in Fds : \E offset \in Offsets(fh), length \in Lengths :
          read(fh, offset, length)

SpecRead == Init /\ [][NextRead]_vars

\* access with every mode on every path, in the states that open, getattr
\* and release leave.
NextAccess ==
    \/ \E p \in FsPaths : open(p)
    \/ \E p \in FsPaths : getattr(p)
    \/ \E fh \in Fds : release(fh)
    \/ \E p \in FsPaths, m \in Modes : access(p, m)

SpecAccess == Init /\ [][NextAccess]_vars

(***************************************************************************)
(* classify on its own, over paths built from every short name.            *)
(***************************************************************************)
\* A call that has not returned yet.
Pending == [err |-> "pending", val |-> <<>>]

\* The characters of the generated names: a letter, a digit, the hyphen
\* and the underscore.
NameAlphabet == {"w", "2", "-", "_"}

GenNames == UNION {[1..n -> NameAlphabet] : n \in 1..MaxNameLen}

\* Names of catalog entries, generated names, the empty name and a name
\* with a character that no name may have.
NameInputs == DappKeys \cup GenNames \cup {<<>>, <<"w", "@">>}

\* Characters in the place of the two dots of '.service.d'.
DotInputs == {".", "X", "/"}

\* What follows '.service.d'.
TrailInputs ==
    { <<>>, <<"/">>, DappConf, <<"/", "x">>, <<"x">>, <<NL>>, DappConf \o <<NL>>,
      DappConf \o <<"/", "x">>, <<"/", "d", "a", "p", "p", "X", "c", "o", "n", "f">> }

ClassifyPaths ==
    {Root, <<>>, <<"/", "x">>, Tail(DirPath(Web))}
        \cup {DappPrefix \o n \o <<c1>> \o ServiceWord \o <<c2>> \o <<"d">> \o t :
                 n \in NameInputs, c1 \in DotInputs, c2 \in DotInputs, t \in TrailInputs}

InitClassify ==
    /\ cache = <<>>
    /\ filecache = <<>>
    /\ lastfd = -1
    /\ fdpath = <<>>
    /\ gencalls = [n \in DappKeys |-> 0]
    /\ \E p \in ClassifyPaths : call = Call("classify", p, 0, 0, 0, 0)
    /\ obj = PyNone
    /\ ret = Pending
    /\ desc = NoDesc
    /\ threads = [t \in Threads |-> Idle]

\* classify(self, path) returns.
classifyReturn ==
    /\ call.op = "classify"
    /\ ret = Pending
    /\ obj' = classify(call.path)
    /\ ret' = Ok(obj')
    /\ UNCHANGED <<cache, filecache, lastfd, fdpath, gencalls, call, desc, threads>>

NextClassify == classifyReturn

SpecClassify == InitClassify /\ [][NextClassify]_vars

(***************************************************************************)
(* Two open calls that run as threads.  Each statement of open that reads  *)
(* or writes self.lastfd or self.filecache is a step of its own, and the   *)
(* steps of the two threads interleave.  getobj and getconfig are taken as *)
(* one step each.                                                          *)
(***************************************************************************)

\* The thread t is between its read of self.lastfd and its return.
Inside(t) == threads[t].pc \in {"inc", "gen", "store", "ret"}

\* obj = self.getobj(path)
openBegin(t, path) ==
    /\ threads[t].pc = "idle"
    /\ \E o \in {getobj(path)} :
          threads' = [threads EXCEPT
              ![t].path = path,
              ![t].pc   = IF o.err # "" THEN "done" ELSE "load",
              ![t].obj  = IF o.err # "" THEN PyNone ELSE o.val,
              ![t].ret  = IF o.err # "" THEN o ELSE @]
    /\ UNCHANGED <<cache, filecache, lastfd, fdpath, gencalls, call, obj, ret, desc>>

\* self.lastfd += 1, its read of self.lastfd.  A thread that reads while
\* another one is between its read and its return overlaps with it.
openLoad(t) ==
    /\ threads[t].pc = "load"
    /\ threads' = [u \in Threads |->
                      IF u = t
                      THEN [threads[t] EXCEPT
                               !.pc = "inc", !.fd = lastfd,
                               !.overlap = \E v \in Threads \ {t} : Inside(v)]
                      ELSE [threads[u] EXCEPT !.overlap = @ \/ Inside(u)]]
    /\ UNCHANGED <<cache, filecache, lastfd, fdpath, gencalls, call, obj, ret, desc>>

\* self.lastfd += 1, its write of self.lastfd.
openIncrement(t) ==
    /\ threads[t].pc = "inc"
    /\ lastfd' = nextfd(threads[t].fd)
    /\ threads' = [threads EXCEPT ![t].pc = "gen"]
    /\ UNCHANGED <<cache, filecache, fdpath, gencalls, call, obj, ret, desc>>

\* self.getconfig(obj), the right-hand side of the assignment.
openGetconfig(t) ==
    /\ threads[t].pc = "gen"
    /\ \E r \in {getconfig(threads[t].obj)} :
          /\ cache' = r.cache
          /\ gencalls' = Counted(threads[t].obj, r)
          /\ threads' = [threads EXCEPT
                 ![t].pc  = IF r.res.err # "" THEN "done" ELSE "store",
                 ![t].doc = IF r.res.err # "" THEN @ ELSE r.res.val,
                 ![t].ret = IF r.res.err # "" THEN r.res ELSE @]
    /\ UNCHANGED <<filecache, lastfd, fdpath, call, obj, ret, desc>>

\* self.filecache[self.lastfd] = ..., with self.lastfd as it is now.
openStore(t) ==
    /\ threads[t].pc = "store"
    /\ filecache' = SetItem(filecache, lastfd, threads[t].doc)
    /\ fdpath' = SetItem(fdpath, lastfd, threads[t].path)
    /\ threads' = [threads EXCEPT ![t].pc = "ret"]
    /\ UNCHANGED <<cache, lastfd, gencalls, call, obj, ret, desc>>

\* return self.lastfd, with self.lastfd as it is now.
openReturn(t) ==
    /\ threads[t].pc = "ret"
    /\ threads' = [threads EXCEPT ![t].pc = "done", ![t].ret = Ok(lastfd)]
    /\ UNCHANGED <<cache, filecache, lastfd, fdpath, gencalls, call, obj, ret, desc>>

NextThreads ==
    \/ \E t \in Threads : \E p \in FsPaths : openBegin(t, p)
    \/ \E t \in Threads : openLoad(t)
    \/ \E t \in Threads : openIncrement(t)
    \/ \E t \in Threads : openGetconfig(t)
    \/ \E t \in Threads : openStore(t)
    \/ \E t \in Threads : openReturn(t)

SpecThreads == Init /\ [][NextThreads]_vars

(***************************************************************************)
(* genconfig on its own, over records with every short list of ports.      *)
(***************************************************************************)

PortNumbers == {80, 443}

Protocols == {<<"t", "c", "p">>, <<"u", "d", "p">>}

PortTypes == {"public", "private"}

PortInputs ==
    [port : PortNumbers, protocol : Protocols, type : PortTypes]

RECURSIVE PortLists(_)
PortLists(n) ==
    IF n = 0 THEN {<<>>}
    ELSE LET shorter == PortLists(n - 1)
         IN  shorter \cup {Append(l, p) : l \in {s \in shorter : Len(s) = n - 1},
                                          p \in PortInputs}

\* A record with every field genconfig reads.
WholeDesc(ports) ==
    [description |-> <<"W", "e", "b">>, image |-> <<"o", "/", "w", ":", "1">>,
     ports |-> ports]

WholePort == [port |-> 80, protocol |-> <<"t", "c", "p">>, type |-> "public"]

\* Records that lack one of the fields genconfig reads: a field of the
\* record itself, or a field of one of its ports.
MalformedInputs ==
    { [image |-> <<"w">>, ports |-> <<WholePort>>],
      [description |-> <<"W">>, ports |-> <<WholePort>>],
      [description |-> <<"W">>, image |-> <<"w">>],
      WholeDesc(<<[protocol |-> <<"t", "c", "p">>, type |-> "public"]>>),
      WholeDesc(<<[port |-> 80, type |-> "public"]>>),
      WholeDesc(<<[port |-> 80, protocol |-> <<"t", "c", "p">>]>>),
      WholeDesc(<<WholePort, [port |-> 443, type |-> "private"]>>),
      WholeDesc(<<[port |-> 443, protocol |-> <<"t", "c", "p">>], WholePort>>) }

DescInputs ==
    {WholeDesc(l) : l \in PortLists(MaxPorts)} \cup MalformedInputs

InitGenerate ==
    /\ cache = <<>>
    /\ filecache = <<>>
    /\ lastfd = -1
    /\ fdpath = <<>>
    /\ gencalls = [n \in DappKeys |-> 0]
    /\ call = Call("genconfig", NoPath, 0, 0, 0, 0)
    /\ obj = PyNone
    /\ ret = Pending
    /\ desc \in DescInputs
    /\ threads = [t \in Threads |-> Idle]

\* genconfig(self, dapp) returns, d being self.dapps[dapp].
genconfigReturn ==
    /\ call.op = "genconfig"
    /\ ret = Pending
    /\ ret' = generate(desc)
    /\ UNCHANGED <<cache, filecache, lastfd, fdpath, gencalls, call, obj, desc, threads>>

NextGenerate == genconfigReturn

SpecGenerate == InitGenerate /\ [][NextGenerate]_vars

(***************************************************************************)
(* The handle table: open, read, release.                                  *)
(***************************************************************************)
\* C1: of two descriptors that open returned for the same path and that
\* are both in the table, release of one removes that one alone: the
\* other is still in the table and a read of it still returns its whole
\* text.
C1_IndependentHandles ==
    [][ \A h1, h2 \in DOMAIN filecache :
          (/\ call'.op = "release"
           /\ call'.fh = h1
           /\ h2 # h1
           /\ fdpath[h2] = fdpath[h1])
          => /\ ret'.err = ""
             /\ filecache' = DelItem(filecache, h1)
             /\ readbytes(h2, 0, Huge)' = Ok(filecache[h2]) ]_vars

\* C2: a read of the descriptor h that follows a release(h) that succeeded
\* raises and returns no text.
C2_ReadAfterRelease ==
    [][ (/\ call.op = "release"
         /\ ret.err = ""
         /\ call'.op = "read"
         /\ call'.fh = call.fh)
        => ret'.err = "KeyError" ]_vars

\* C3: release(h) succeeds exactly when h is in the table, and a release
\* that fails leaves the table as it was.
C3_ReleaseIffAllocated ==
    [][ call'.op = "release"
        => /\ (ret'.err = "") <=> (call'.fh \in DOMAIN filecache)
           /\ ret'.err # "" => filecache' = filecache
           /\ ret'.err = "" => filecache' = DelItem(filecache, call'.fh) ]_vars

(***************************************************************************)
(* The cache of generated texts.                                           *)
(***************************************************************************)
\* C4, as stated: genconfig is called at most once for each name.
C4_GeneratedAtMostOnce == \A n \in DappKeys : gencalls[n] <= 1

\* C4, amended: a text once in the cache is never changed or removed and
\* genconfig is not called again for its name; a name in the cache has had
\* exactly one genconfig call, so only a name whose generation fails has
\* more than one; and what open stores and getattr measures for a name is
\* the text the cache holds for it.
C4_CacheIdempotent ==
    [][ /\ \A n \in DOMAIN cache :
              /\ n \in DOMAIN cache'
              /\ cache'[n] = cache[n]
              /\ gencalls'[n] = gencalls[n]
        /\ \A n \in DOMAIN cache' : gencalls'[n] = 1
        /\ \A n \in DappKeys : gencalls'[n] > 1 => Generated[n].err # ""
        /\ (call'.op = "open" /\ ret'.err = "")
              => filecache'[ret'.val] = cache'[obj'.v]
        /\ (call'.op = "getattr" /\ ret'.err = "" /\ IsStr(obj'))
              => ret'.val.st_size = Len(cache'[obj'.v]) ]_vars

\* The text of web is in the cache after one genconfig call, a descriptor
\* opened on its file is in the table, getattr has just measured the same
\* file, and genconfig has been called twice for the malformed entry.
C4_Witness ==
    /\ Web \in DOMAIN cache
    /\ gencalls[Web] = 1
    /\ gencalls[<<"b", "a", "d">>] = 2
    /\ call.op = "getattr"
    /\ call.path = FilePath(Web)
    /\ ret.err = ""
    /\ \E fd \in DOMAIN fdpath : fdpath[fd] = FilePath(Web)

(***************************************************************************)
(* The classifier.                                                         *)
(***************************************************************************)
Digits == {"0", "1", "2", "3", "4", "5", "6", "7", "8", "9"}

\* A non-empty string of letters, digits, hyphen and underscore.
IsEntityName(n) ==
    n # <<>> /\ \A i \in 1..Len(n) : n[i] \in Upper \cup Lower \cup Digits \cup {"-", "_"}

\* classify has returned for the path of the call.
Classified == call.op = "classify" /\ ret # Pending

\* C5: for every name of the catalog made of letters, digits, hyphen and
\* underscore, classify gives True for its directory and the name for its
\* dapp.conf.
C5_CatalogPathsClassify ==
    \A n \in DappKeys :
        (IsEntityName(n) /\ Classified)
        => /\ call.path = DirPath(n) => ret.val = PyTrue
           /\ call.path = FilePath(n) => ret.val = PyStr(n)

\* The literal form /dapp@<NAME>.service.d, alone or followed by /<FILE>.
LiteralForm(p) ==
    \E k \in 1..(Len(p) - Len(DappPrefix)) :
        LET pre == Len(DappPrefix)
        IN  /\ SubSeq(p, 1, pre) = DappPrefix
            /\ IsEntityName(SubSeq(p, pre + 1, pre + k))
            /\ Len(p) >= pre + k + 10
            /\ SubSeq(p, pre + k + 1, pre + k + 10)
                   = <<".">> \o ServiceWord \o <<".", "d">>
            /\ (Len(p) = pre + k + 10 \/ p[pre + k + 11] = "/")

\* C9: classify gives None for every path that is neither "/" nor of the
\* literal form.
C9_OnlyLiteralForm ==
    (Classified /\ call.path # Root /\ ~LiteralForm(call.path)) => ret.val.t = "None"

(***************************************************************************)
(* readdir, read, access, getattr.                                         *)
(***************************************************************************)
\* C6: readdir raises on the path of a dapp.conf that exists, with the
\* errno of a directory operation on what is no directory, and raises
\* ENOENT on a path that classify rejects.
C6_ListFileFails ==
    call.op = "readdir"
    => LET c == classify(call.path)
       IN  /\ c.t = "str" => ret.err \in {"ENOTDIR", "EBADF"}
           /\ c.t = "None" => ret.err = "ENOENT"

\* C7: read on a descriptor of the table returns the characters of its
\* text from offset up to offset + length or the end of the text,
\* whichever comes first: the whole text from offset 0 with a length that
\* covers it, nothing from an offset at or past the end.
C7_ReadSlice ==
    (call.op = "read" /\ call.fh \in DOMAIN filecache)
    => LET c   == filecache[call.fh]
           n   == Len(c)
           hi  == IF call.offset + call.length < n THEN call.offset + call.length ELSE n
           cnt == IF hi > call.offset THEN hi - call.offset ELSE 0
       IN  /\ ret.err = ""
           /\ Len(ret.val) = cnt
           /\ \A i \in 1..cnt : ret.val[i] = c[call.offset + i]
           /\ (call.offset = 0 /\ call.length >= n) => ret.val = c
           /\ call.offset >= n => ret.val = <<>>

\* A read at an offset past the end of the text has returned nothing, and
\* another descriptor is open beside the one read.
C7_Witness ==
    /\ call.op = "read"
    /\ call.fh \in DOMAIN filecache
    /\ call.offset > Len(filecache[call.fh])
    /\ call.length > 0
    /\ ret = Ok(<<>>)
    /\ \E h \in DOMAIN filecache : h # call.fh

\* C8: access raises ENOENT on a path classify rejects; on any other path
\* EACCES when the write bit is set, EACCES when the execute bit is set
\* and the path is a file, and nothing otherwise; and it leaves the cache,
\* the table and the counter as they were.
C8_AccessPolicy ==
    [][ call'.op = "access"
        => LET c == classify(call'.path)
               w == (call'.mode \div 2) % 2 = 1
               x == call'.mode % 2 = 1
           IN  /\ ret'.err = IF c.t = "None" THEN "ENOENT"
                             ELSE IF w THEN "EACCES"
                             ELSE IF x /\ c.t = "str" THEN "EACCES"
                             ELSE ""
               /\ cache' = cache
               /\ filecache' = filecache
               /\ lastfd' = lastfd ]_vars

\* access for execution alone has been refused on a dapp.conf, while a
\* text is in the cache and a descriptor in the table.
C8_Witness ==
    /\ call.op = "access"
    /\ call.path = FilePath(Web)
    /\ call.mode = X_OK
    /\ ret.err = "EACCES"
    /\ DOMAIN cache # {}
    /\ DOMAIN filecache # {}

\* C10: getattr raises ENOENT on a path classify rejects, returns a
\* directory of size 0 for a directory, and for a dapp.conf whose text can
\* be generated a regular file whose size is the length of the cached
\* text, which is what a read of the whole text returns on every
\* descriptor of the table opened on that path; and in every state a read
\* of the whole text on a descriptor returns as many characters as the
\* cache holds for the name of its path.
C10_AttrSize ==
    /\ call.op = "getattr"
       => LET c == classify(call.path)
          IN  /\ c.t = "None" => ret.err = "ENOENT"
              /\ c.t = "True"
                 => /\ ret.err = ""
                    /\ ret.val.st_mode \div 4096 = 4
                    /\ ret.val.st_size = 0
              /\ (c.t = "str" /\ Generated[c.v].err = "")
                 => /\ ret.err = ""
                    /\ ret.val.st_mode \div 4096 = 8
                    /\ ret.val.st_size = Len(cache[c.v])
                    /\ \A fd \in DOMAIN fdpath :
                          fdpath[fd] = call.path
                          => /\ readbytes(fd, 0, Huge).err = ""
                             /\ Len(readbytes(fd, 0, Huge).val) = ret.val.st_size
    /\ \A fd \in DOMAIN fdpath :
          LET c == classify(fdpath[fd])
          IN  /\ c.t = "str"
              /\ c.v \in DOMAIN cache
              /\ Len(readbytes(fd, 0, Huge).val) = Len(cache[c.v])

\* getattr has returned the size of a dapp.conf on which a descriptor of
\* the table was opened.
C10_Witness ==
    /\ call.op = "getattr"
    /\ call.path = FilePath(Web)
    /\ ret.err = ""
    /\ ret.val.st_size > 0
    /\ \E fd \in DOMAIN fdpath : fdpath[fd] = call.path

(***************************************************************************)
(* genconfig: the lines about ports.                                       *)
(***************************************************************************)

\* s.startswith(p)
StartsWith(s, p) == Len(s) >= Len(p) /\ SubSeq(s, 1, Len(p)) = p

\* s.split('\n')
RECURSIVE SplitLines(_)
SplitLines(s) ==
    IF \A i \in DOMAIN s : s[i] # NL THEN <<s>>
    ELSE LET k == CHOOSE i \in DOMAIN s : s[i] = NL /\ \A j \in 1..(i - 1) : s[j] # NL
         IN  <<SubSeq(s, 1, k - 1)>> \o SplitLines(SubSeq(s, k + 1, Len(s)))

WantsKey == <<"W", "a", "n", "t", "s", "=">>

\* C11: the text generated from a record with the port list P has, as its
\* lines that start with Wants=, exactly the lines
\* Wants=forward-port@<port>-<protocol>.service of the entries of P whose
\* type is "public", in the order of P, and has one line
\* Environment=DAPP_DOCKER_PORTS="..." whose value is the tokens
\* -p<port>/<protocol> of all the entries of P, in the order of P, joined
\* by one space.
C11_PortLines ==
    (call.op = "genconfig" /\ ret.err = "") =>
        LET lines  == SplitLines(ret.val)
            wants  == SelectSeq(lines, LAMBDA l : StartsWith(l, WantsKey))
            envs   == SelectSeq(lines, LAMBDA l : StartsWith(l, PortsHead))
            P      == desc.ports
            public == SelectSeq(P, LAMBDA p : p.type = "public")
            token(p) == <<"-", "p">> \o IntStr(p.port) \o <<"/">> \o p.protocol
        IN  /\ Len(wants) = Len(public)
            /\ \A i \in DOMAIN public :
                   wants[i] = WantsKey \o <<"f", "o", "r", "w", "a", "r", "d", "-", "p", "o",
                                            "r", "t", "@">>
                                 \o IntStr(public[i].port) \o <<"-">> \o public[i].protocol
                                 \o <<".", "s", "e", "r", "v", "i", "c", "e">>
            /\ Len(envs) = 1
            /\ envs[1] = PortsHead \o Join(<<" ">>, [i \in DOMAIN P |-> token(P[i])])
                             \o <<"\"">>

\* The text of the record with the ports 80/tcp public and 443/tcp private
\* has been generated.
C11_Witness ==
    /\ call.op = "genconfig"
    /\ ret.err = ""
    /\ desc.ports = << [port |-> 80, protocol |-> <<"t", "c", "p">>, type |-> "public"],
                       [port |-> 443, protocol |-> <<"t", "c", "p">>, type |-> "private"] >>
    /\ Len(SelectSeq(SplitLines(ret.val), LAMBDA l : StartsWith(l, WantsKey))) = 1

(***************************************************************************)
(* Records that lack a field.                                              *)
(***************************************************************************)

\* The record d lacks a field that genconfig reads.
LacksField(d) ==
    \/ ~({"description", "image", "ports"} \subseteq DOMAIN d)
    \/ \E i \in DOMAIN d.ports : ~({"port", "protocol", "type"} \subseteq DOMAIN d.ports[i])

\* C12: genconfig raises KeyError, and returns no text, for each of the
\* records of MalformedInputs, which lack description, image, ports, or the
\* port, protocol or type of one of their ports.  For a name of the catalog whose record lacks a field,
\* getconfig raises that KeyError and the cache never holds the name, and
\* getattr and open of its dapp.conf raise that KeyError; that open returns
\* no descriptor and leaves the table of open documents as it was.
C12_MalformedFails ==
    [][ /\ \A d \in MalformedInputs : LacksField(d) /\ generate(d) = Raise("KeyError")
        /\ \A n \in DappKeys :
              LacksField(dapps[n]) =>
                  /\ n \notin DOMAIN cache'
                  /\ getconfig(PyStr(n))'.res = Raise("KeyError")
                  /\ (call'.op \in {"getattr", "open"} /\ call'.path = FilePath(n))
                         => ret' = Raise("KeyError")
                  /\ (call'.op = "open" /\ call'.path = FilePath(n))
                         => filecache' = filecache ]_vars

\* open of the dapp.conf of a dApp whose record lacks a field has raised
\* while another document was open.
C12_Witness ==
    /\ call.op = "open"
    /\ \E n \in DappKeys : LacksField(dapps[n]) /\ call.path = FilePath(n)
    /\ ret = Raise("KeyError")
    /\ filecache # <<>>

(***************************************************************************)
(* The descriptors that open gives out.                                    *)
(***************************************************************************)

\* C13: calls being made one at a time, lastfd never decreases and no
\* descriptor of the table is above it; an open that succeeds returns the
\* new value of lastfd, which is above the old one, hence above every
\* descriptor returned before, and which is not in the table before the
\* call.
C13_FreshHandles ==
    [][ /\ lastfd' >= lastfd
        /\ \A h \in DOMAIN filecache' : h <= lastfd'
        /\ (call'.op = "open" /\ ret'.err = "")
               => /\ ret'.val = lastfd'
                  /\ ret'.val > lastfd
                  /\ ret'.val \notin DOMAIN filecache
                  /\ ret'.val \in DOMAIN filecache' ]_vars

\* open has returned a second descriptor after the first one was released:
\* the first is free, and was not given out again.
C13_Witness ==
    /\ call.op = "open"
    /\ ret.err = ""
    /\ ret.val > 0
    /\ DOMAIN filecache = {ret.val}

(***************************************************************************)
(* read and fsync.                                                         *)
(***************************************************************************)

\* C14: read and fsync leave the cache, the table and lastfd as they were,
\* fsync succeeds, and a descriptor h of the table reads the same, for each
\* offset and length, after every call other than a release, and after the
\* release of another descriptor of the table.
C14_ReadStable ==
    [][ /\ call'.op \in {"read", "fsync"}
           => /\ cache' = cache
              /\ filecache' = filecache
              /\ lastfd' = lastfd
        /\ call'.op = "fsync" => ret' = Ok(PyNone)
        /\ \A h \in DOMAIN filecache :
              (call'.op = "release" => call'.fh \in DOMAIN filecache \ {h})
              => \A offset \in Offsets(h), length \in Lengths :
                    readbytes(h, offset, length)' = readbytes(h, offset, length) ]_vars

(***************************************************************************)
(* classify: names outside the catalog, and what follows the directory.    *)
(***************************************************************************)

\* A non-empty string of letters, hyphen and underscore.
IsLetterName(n) ==
    n # <<>> /\ \A i \in 1..Len(n) : n[i] \in Upper \cup Lower \cup {"-", "_"}

\* C15: for a name of letters, hyphen and underscore that is not in the
\* catalog, classify gives True for its directory and None for its
\* dapp.conf; for a name of the catalog, classify gives None for its
\* directory followed by anything (a bare "/" too) but "/dapp.conf".
C15_TrailingPart ==
    Classified =>
        /\ \A n \in NameInputs :
              (IsLetterName(n) /\ n \notin DappKeys)
              => /\ call.path = DirPath(n) => ret.val.t = "True"
                 /\ call.path = FilePath(n) => ret.val.t = "None"
        /\ \A n \in DappKeys : \A t \in TrailInputs \ {<<>>, DappConf} :
              call.path = DirPath(n) \o t => ret.val.t = "None"

(***************************************************************************)
(* An open that fails.                                                     *)
(***************************************************************************)

\* C16: an open that raises leaves the table of open documents and lastfd
\* as they were, so that every descriptor of the table reads as before and
\* a release that would have succeeded before the call succeeds after it.
C16_FailedOpenNoEffect ==
    [][ (call'.op = "open" /\ ret'.err # "")
        => /\ filecache' = filecache
           /\ lastfd' = lastfd
           /\ (lastfd \in DOMAIN filecache => lastfd' \in DOMAIN filecache') ]_vars

(***************************************************************************)
(* readdir and getattr together.                                           *)
(***************************************************************************)

\* The path of the entry e of the directory d.
ChildPath(d, e) == IF d = Root THEN <<"/">> \o e ELSE d \o <<"/">> \o e

\* C17: a readdir that succeeds yields "." and ".." first, then, for "/",
\* one dapp@<name>.service.d for each name of the catalog and, for any
\* other path, dapp.conf; and getattr of the path of each entry after
\* ".." does not raise ENOENT.
C17_ListedEntriesResolve ==
    (call.op = "readdir" /\ ret.err = "") =>
        LET entries == ret.val
            listed  == {entries[i] : i \in 3..Len(entries)}
        IN  /\ Len(entries) >= 2
            /\ entries[1] = <<".">>
            /\ entries[2] = <<".", ".">>
            /\ call.path = Root
                  => /\ Len(entries) = 2 + Cardinality(DappKeys)
                     /\ listed = {DappPrefix \o n \o <<".">> \o ServiceWord \o <<".", "d">> :
                                     n \in DappKeys}
            /\ call.path # Root => entries = << <<".">>, <<".", ".">>, Tail(DappConf) >>
            /\ \A e \in listed : getobj(ChildPath(call.path, e)).err # "ENOENT"

(***************************************************************************)
(* open calls that run as threads.                                         *)
(***************************************************************************)

\* Both open calls of the threads t and u have returned a descriptor.
BothReturned(t, u) ==
    /\ t # u
    /\ threads[t].pc = "done" /\ threads[t].ret.err = ""
    /\ threads[u].pc = "done" /\ threads[u].ret.err = ""

\* C18, as stated: two open calls whose steps interleave return two
\* distinct descriptors, each of them in the table.
C18_ThreadsDistinct ==
    \A t, u \in Threads :
        BothReturned(t, u)
        => /\ threads[t].ret.val # threads[u].ret.val
           /\ threads[t].ret.val \in DOMAIN filecache
           /\ threads[u].ret.val \in DOMAIN filecache

\* C18, amended: two open calls return two distinct descriptors, each of
\* them in the table, when neither call read self.lastfd while the other
\* was between its read of self.lastfd and its return.
C18_SerialDistinct ==
    \A t, u \in Threads :
        (BothReturned(t, u) /\ ~threads[t].overlap /\ ~threads[u].overlap)
        => /\ threads[t].ret.val # threads[u].ret.val
           /\ threads[t].ret.val \in DOMAIN filecache
           /\ threads[u].ret.val \in DOMAIN filecache

\* Two open calls of the same dapp.conf have returned without overlapping.
C18_Witness ==
    \E t, u \in Threads :
        /\ BothReturned(t, u)
        /\ ~threads[t].overlap /\ ~threads[u].overlap
        /\ threads[t].path = threads[u].path
        /\ threads[t].ret.val # threads[u].ret.val

=============================================================================
